---- MODULE Spec2Model ----
(***************************************************************************)
(* CDS hazard-curve bootstrap (cds_valuation notebook): calendar, discount *)
(* curve, survival model Q_h / diff_Q_h, mark-to-market value and its      *)
(* derivative, the Newton-Raphson root finder, the calibration loop, the   *)
(* finished curve Q and the non-standard contract pricer.                  *)
(*                                                                         *)
(* Representation of the notebook's numbers                                *)
(*   dates    proleptic Gregorian ordinals (datetime.date.toordinal)       *)
(*   rates    integers in units of 1/XS            (x = 0.01  is  1)       *)
(*   times    a float t = k*(days/360)/parts is the triple                 *)
(*            <<days, k, parts>>; int(t*360) is TimeToDays                 *)
(*   exp, Z, Q_h   integers in units of 1/QS                               *)
(*   hazard integral h_t   rate units * days, i.e. units of 1/(XS*360)     *)
(*   mtm values    integers in units of 1/(2*QS)                           *)
(* All intermediate products stay below 2^31.                              *)
(***************************************************************************)
EXTENDS Integers, Sequences, FiniteSets, TLC

VARIABLES
    spread_maturity_dates,  \* the pillar dates (weekend-rolled), ascending
    spread_data,            \* the market spread of each pillar, in bps
    h_values,               \* the hazard map: a dict, as the sequence of its items
    pc,                     \* position of the running cell / call
    caller,                 \* who called newton_raphson_method
    mat_idx,                \* index of the pillar the calibration loop is at
    fn,                     \* the pair (f, d_f) handed to newton_raphson_method
    nr_x, nr_val, nr_diff,  \* locals x, val, diff of newton_raphson_method
    nr_iter,                \* number of updates of x made by the running call (capped)
    h_ret,                  \* what the last call of newton_raphson_method returned
    err,                    \* the exception that ended the run, "" if none
    calls,                  \* history: one record per root-find started
    returns,                \* history: one record per root-find that returned
    q_out,                  \* the last evaluation of Q(dat)
    ns_out,                 \* the last evaluation of nonstandard_cds_mtm_value
    probe                   \* the last direct evaluation of Q_h / diff_Q_h

vars == <<spread_maturity_dates, spread_data, h_values, pc, caller, mat_idx, fn,
          nr_x, nr_val, nr_diff, nr_iter, h_ret, err, calls, returns, q_out, ns_out,
          probe>>

----------------------------------------------------------------------------
(* Scales and bounds of the model *)

XS == 100        \* rate units per 1.0
QS == 10000      \* fixed-point units per 1.0 for exp, Z and Q_h
MaxPillars == 3  \* the calibration runs on the first 1..MaxPillars pillars
MaxX == 20000    \* rates are followed inside 0..MaxX (0.00 .. 200.00)
IterCap == 3     \* nr_iter counts the updates of x up to IterCap

Abs(n) == IF n < 0 THEN -n ELSE n
Min(S) == CHOOSE m \in S : \A o \in S : m <= o

----------------------------------------------------------------------------
(* datetime.date and dateutil.relativedelta *)

IsLeap(y) == (y % 4 = 0) /\ ((y % 100 # 0) \/ (y % 400 = 0))

DaysInMonth(y, m) ==
    IF m = 2 THEN (IF IsLeap(y) THEN 29 ELSE 28)
    ELSE IF m \in {4, 6, 9, 11} THEN 30 ELSE 31

DaysBeforeMonth(y, m) ==
    <<0, 31, 59, 90, 120, 151, 181, 212, 243, 273, 304, 334>>[m]
        + (IF m > 2 /\ IsLeap(y) THEN 1 ELSE 0)

DaysBeforeYear(y) ==
    LET p == y - 1 IN p * 365 + (p \div 4) - (p \div 100) + (p \div 400)

\* date(y, m, d) as an ordinal
date(y, m, d) == DaysBeforeYear(y) + DaysBeforeMonth(y, m) + d

YearOf(n) ==
    CHOOSE y \in (n \div 366)..((n \div 365) + 1) :
        DaysBeforeYear(y) < n /\ n <= DaysBeforeYear(y + 1)

\* the month of the rest-th day of year y
MonthIn(y, rest) ==
    CHOOSE m \in 1..12 :
        DaysBeforeMonth(y, m) < rest
        /\ rest <= DaysBeforeMonth(y, m) + DaysInMonth(y, m)

MonthOf(n) == MonthIn(YearOf(n), n - DaysBeforeYear(YearOf(n)))

DayOf(n) == n - DaysBeforeYear(YearOf(n)) - DaysBeforeMonth(YearOf(n), MonthOf(n))

\* date.weekday(): Monday is 0, Saturday 5, Sunday 6
weekday(n) == (n + 6) % 7

\* d + relativedelta(months=1): the day is clipped to the target month's length
MonthAfter(y, m, d) ==
    LET ny == IF m = 12 THEN y + 1 ELSE y
        nm == IF m = 12 THEN 1 ELSE m + 1
    IN  date(ny, nm, IF d > DaysInMonth(ny, nm) THEN DaysInMonth(ny, nm) ELSE d)

AddOneMonth(n) == MonthAfter(YearOf(n), MonthOf(n), DayOf(n))

\* a roll that moves a Saturday by one day only
RollOneDay(w_date) ==
    IF weekday(w_date) \in {5, 6} THEN w_date + 1 ELSE w_date

weekend_rollover(w_date) ==
    IF weekday(w_date) = 5 THEN w_date + 2
    ELSE IF weekday(w_date) = 6 THEN w_date + 1
    ELSE w_date

\* a payment cycle: four anchors <<month, day>>
standard_cds_payment_dates == << <<3, 20>>, <<6, 20>>, <<9, 20>>, <<12, 20>> >>
nonstandard_cds_payment_dates == << <<2, 15>>, <<5, 15>>, <<8, 15>>, <<11, 15>> >>

RECURSIVE next_payment_date(_, _)

\* payment_date of next_payment_date, for current_date = date(cy, cm, cd)
PaymentDate(cy, cm, cd, current_date, payment_dates) ==
    IF cm < payment_dates[1][1]
    THEN date(cy, payment_dates[1][1], payment_dates[1][2])
    ELSE IF cm > payment_dates[1][1] /\ cm < payment_dates[2][1]
    THEN date(cy, payment_dates[2][1], payment_dates[2][2])
    ELSE IF cm > payment_dates[2][1] /\ cm < payment_dates[3][1]
    THEN date(cy, payment_dates[3][1], payment_dates[3][2])
    ELSE IF cm > payment_dates[3][1] /\ cm < payment_dates[4][1]
    THEN date(cy, payment_dates[4][1], payment_dates[4][2])
    ELSE IF cd < payment_dates[1][2]
    THEN date(cy, cm, payment_dates[1][2])
    ELSE next_payment_date(AddOneMonth(current_date), payment_dates)

\* a next payment date that is left on the weekend
UnrolledPaymentDate(current_date, payment_dates) ==
    PaymentDate(YearOf(current_date), MonthOf(current_date),
                DayOf(current_date), current_date, payment_dates)

next_payment_date(current_date, payment_dates) ==
    weekend_rollover(PaymentDate(YearOf(current_date), MonthOf(current_date),
                                 DayOf(current_date), current_date, payment_dates))

contract_date == date(2014, 2, 28)
effective_date == contract_date + 1
ns_effective_date == date(2014, 3, 1)

\* spread_maturity_dates_before_adjustment
MaturityDatesBeforeAdjustment ==
    << date(2014, 9, 20), date(2015, 3, 20), date(2016, 3, 20),
       date(2017, 3, 20), date(2018, 3, 20) >>

\* spread_maturity_dates = [weekend_rollover(d) for d in ...before_adjustment]
AdjustedMaturityDates(n) ==
    [j \in 1..n |-> weekend_rollover(MaturityDatesBeforeAdjustment[j])]

----------------------------------------------------------------------------
(* Float times.  A time in years reaches Q_h, diff_Q_h and Z as the float  *)
(* k*(days/360)/parts  (a coupon date is k = parts = 1).  int(t*360) is    *)
(* the floor of k*days/parts, except where the IEEE-754 double product     *)
(* lands just below an integer: ShortDays lists the day counts d <= 1600   *)
(* with int((d/360)*360) = d - 1, ShortGrid the grid points of the modelled*)
(* maturities (up to 140 days, and the pillars) with int(s(k,T)*360) one   *)
(* below k*days/parts.                                                     *)

ShortDays ==
    {13, 26, 49, 52, 63, 98, 104, 109, 115, 126, 185, 196, 207, 208, 218, 219,
     230, 241, 252, 253, 369, 370, 371, 391, 392, 393, 414, 415, 416, 436, 437,
     438, 459, 460, 461, 481, 482, 483, 504, 505, 506, 737, 738, 739, 740, 741,
     742, 782, 783, 784, 785, 786, 787, 827, 828, 829, 830, 831, 832, 872, 873,
     874, 875, 876, 877, 917, 918, 919, 920, 921, 922, 962, 963, 964, 965, 966,
     967, 1007, 1008, 1009, 1010, 1011, 1012, 1474, 1476, 1478, 1480, 1482,
     1484, 1519, 1521, 1523, 1525, 1527, 1529, 1564, 1566, 1568, 1570, 1572,
     1574}

ShortGrid ==
    {<<49, 2, 2>>, <<52, 1, 2>>, <<52, 2, 2>>, <<61, 3, 3>>, <<62, 3, 3>>,
     <<63, 1, 3>>, <<63, 2, 3>>, <<63, 3, 3>>, <<84, 3, 3>>, <<85, 3, 3>>,
     <<98, 2, 4>>, <<98, 4, 4>>, <<104, 1, 4>>, <<104, 2, 4>>, <<104, 3, 4>>,
     <<104, 4, 4>>, <<108, 3, 4>>, <<109, 4, 4>>, <<115, 4, 4>>, <<126, 5, 5>>,
     <<130, 1, 5>>, <<130, 2, 5>>, <<130, 3, 5>>, <<130, 4, 5>>,
     <<1480, 15, 50>>, <<1480, 25, 50>>, <<1480, 30, 50>>, <<1480, 45, 50>>,
     <<1480, 50, 50>>}

\* the float (d2 - d1).days / 360
YearFrac(days) == <<days, 1, 1>>

\* int(t*360)
TimeToDays(t) ==
    ((t[2] * t[1]) \div t[3])
        - (IF (t[2] = 1 /\ t[3] = 1 /\ t[1] \in ShortDays) \/ t \in ShortGrid
           THEN 1 ELSE 0)

K(T_days) == (12 * T_days + 359) \div 360      \* math.ceil(m*T_i), m = 12

s(k, T_days) == <<T_days, k, K(T_days)>>       \* k*T_i / K(T_i, m)

----------------------------------------------------------------------------
(* np.exp in fixed point *)

InvE == 3679     \* QS/e

\* QS * sum_{k >= first} (-num/den)^k / k!   (sign = -1)   for 0 <= num < den
RECURSIVE ExpSeries(_, _, _, _, _)
ExpSeries(term, num, den, k, sign) ==
    IF term = 0 \/ k > 12 THEN 0
    ELSE LET nt == (term * num) \div (den * k)
         IN  (IF sign < 0 /\ k % 2 = 1 THEN -nt ELSE nt)
                 + ExpSeries(nt, num, den, k + 1, sign)

RECURSIVE TimesInvE(_, _)
TimesInvE(v, n) ==
    IF n = 0 THEN v ELSE TimesInvE((v * InvE + (QS \div 2)) \div QS, n - 1)

\* QS * exp(-j/360) and QS * exp(-n), tabulated once
ExpTable == [j \in 0..359 |-> QS + ExpSeries(QS, j, 360, 1, -1)]
InvEPow == [n \in 0..12 |-> TimesInvE(QS, n)]

\* QS * exp(-num/den), num >= 0: exp(-whole) * exp(-j/360) * (1 - rest), where
\* num/den = whole + j/360 + rest and 0 <= rest < 1/360
ExpNeg(num, den) ==
    LET whole == num \div den
        part  == num % den
        j     == (part * 360) \div den
        rest  == part * 360 - j * den          \* over 360*den
        v     == ExpTable[j] - ((ExpTable[j] * rest) \div (360 * den))
    IN  IF whole > 12 THEN 0
        ELSE (v * InvEPow[whole] + (QS \div 2)) \div QS

\* QS * exp(num/den), 0 <= num < den
ExpPos(num, den) == QS + ExpSeries(QS, num, den, 1, 1)

----------------------------------------------------------------------------
(* Discount curve (Nelson-Siegel) *)

B0 == 408        \* 0.0408
B1 == -396       \* -0.0396
B2 == -511       \* -0.0511
tau == 1614      \* 1.614

\* r(s)*s in units of 1/QS, for s = t in years; r(0) = 0
NelsonSiegel(sc, e) ==
    LET slope == (tau * (QS - e)) \div 1000        \* tau*(1-exp(-s/tau))
        curv  == slope - ((sc * e) \div 36000)     \* ... - s*exp(-s/tau)
    IN  ((B0 * sc) \div 36000)
            - (((-B1) * slope) \div 10000)
            - (((-B2) * curv) \div 10000)

\* s in units of 1/36000 year
TimeScaled(t) == (t[2] * t[1] * 100) \div t[3]

r_times_s(t) ==
    IF t[2] * t[1] = 0 THEN 0
    ELSE NelsonSiegel(TimeScaled(t), ExpNeg(TimeScaled(t), 36 * tau))

\* np.exp(-r(s) * s)
DiscountOf(rs) == IF rs >= 0 THEN ExpNeg(rs, QS) ELSE ExpPos(-rs, QS)

Z(t) == DiscountOf(r_times_s(t))

----------------------------------------------------------------------------
(* The hazard map: a Python dict {date: rate}, kept as the sequence of its *)
(* items in insertion order.  NoneVal stands for Python's None.            *)

NoneVal == -1000000

Keys(dict) == {dict[j].key : j \in DOMAIN dict}
HasKey(dict, key) == key \in Keys(dict)
Get(dict, key) == dict[CHOOSE j \in DOMAIN dict : dict[j].key = key].val

\* variant of DictSet that puts a new item in front of the others
DictPrepend(dict, key, val) == <<[key |-> key, val |-> val]>> \o dict

\* dict[key] = val: an existing key keeps its place, a new key is appended
DictSet(dict, key, val) ==
    IF HasKey(dict, key)
    THEN [j \in DOMAIN dict |->
             IF dict[j].key = key THEN [key |-> key, val |-> val] ELSE dict[j]]
    ELSE Append(dict, [key |-> key, val |-> val])

----------------------------------------------------------------------------
(* Survival model *)

NPillars == Len(spread_maturity_dates)

\* end_date = effective_date + relativedelta(days=int(t*360))
EndDate(t) == effective_date + TimeToDays(t)

\* a scan that breaks only at the first pillar after the end date
StopIndexAfter(end_date) ==
    IF {j \in 1..NPillars : spread_maturity_dates[j] > end_date} = {}
    THEN NPillars + 1
    ELSE Min({j \in 1..NPillars : spread_maturity_dates[j] > end_date})

\* the index at which the scan over spread_maturity_dates breaks: the first
\* pillar with mat_date >= end_date; NPillars + 1 when the loop runs out
StopIndex(end_date) ==
    LET at_or_after == {j \in 1..NPillars : spread_maturity_dates[j] >= end_date}
    IN  IF at_or_after = {} THEN NPillars + 1 ELSE Min(at_or_after)

\* start_date = effective_date if idx==0 else spread_maturity_dates[idx-1]
StartDate(idx) ==
    IF idx = 1 THEN effective_date ELSE spread_maturity_dates[idx - 1]

\* variant of SolvedPart that adds the term of every item the map holds, not
\* only of the pillars before the end date
RECURSIVE SumOfItems(_, _)
SumOfItems(j, prev_h) ==
    IF j = 0 THEN 0
    ELSE SumOfItems(j - 1, prev_h)
            + (IF prev_h[j].val = NoneVal THEN 0
               ELSE prev_h[j].val * (prev_h[j].key - StartDate(j)))
SolvedPartOfAll(n, prev_h) == SumOfItems(Len(prev_h), prev_h)

RECURSIVE SolvedPart(_, _)
\* the terms h_t += prev_h[mat_date] * (mat_date - start_date).days of the
\* first n pillars
SolvedPart(n, prev_h) ==
    IF n = 0 THEN 0
    ELSE SolvedPart(n - 1, prev_h)
            + Get(prev_h, spread_maturity_dates[n])
                * (spread_maturity_dates[n] - StartDate(n))

\* the keys at which Q_h(t, ...) reads prev_h: the pillars with
\* mat_date < end_date
MapReads(t) ==
    {spread_maturity_dates[n] : n \in 1..(StopIndex(EndDate(t)) - 1)}

\* h_t of Q_h, in rate units * days
HazardIntegral(t, h_i, prev_h) ==
    LET end_date == EndDate(t)
        stop == StopIndex(end_date)
    IN  SolvedPart(stop - 1, prev_h)
            + (IF stop <= NPillars THEN h_i * (end_date - StartDate(stop)) ELSE 0)

Q_h(t, h_i, prev_h) == ExpNeg(HazardIntegral(t, h_i, prev_h), XS * 360)

\* the exception Q_h raises ("" if none): prev_h[mat_date] of a missing key is
\* a KeyError, None * float a TypeError
Q_h_raises(t, h_i, prev_h) ==
    LET stop == StopIndex(EndDate(t))
        bad  == {n \in 1..(stop - 1) :
                    \/ ~HasKey(prev_h, spread_maturity_dates[n])
                    \/ Get(prev_h, spread_maturity_dates[n]) = NoneVal}
    IN  IF bad # {}
        THEN (IF ~HasKey(prev_h, spread_maturity_dates[Min(bad)])
              THEN "KeyError" ELSE "TypeError")
        ELSE IF stop <= NPillars /\ h_i = NoneVal THEN "TypeError" ELSE ""

\* a diff measured from the effective date whichever pillar is located
DiffDaysFromEffective(t) ==
    IF StopIndex(EndDate(t)) <= NPillars THEN EndDate(t) - effective_date ELSE 0

\* diff of diff_Q_h, in days
DiffDays(t) ==
    LET end_date == EndDate(t)
        stop == StopIndex(end_date)
    IN  IF stop <= NPillars THEN end_date - StartDate(stop) ELSE 0

diff_Q_h(t, h_i, prev_h) == -((DiffDays(t) * Q_h(t, h_i, prev_h)) \div 360)

----------------------------------------------------------------------------
(* Valuation engine *)

R_standard == 45         \* R = 0.45
R_nonstandard == 60      \* R = 0.6
spread_nonstandard == 170

\* spread * d / 360 without leaving 32 bits
TimesOver360(spread, d) == spread * (d \div 360) + ((spread * (d % 360)) \div 360)

\* the times at which the protection-leg loop evaluates Q_h, in call order
GridTimes(T_days) == [n \in 1..(2 * K(T_days)) |-> s(n \div 2, T_days)]

\* the times at which the premium-leg loop evaluates Q_h, in call order
RECURSIVE CouponTimes(_, _, _, _)
CouponTimes(current_date, next_pay_date, maturity_date, payment_dates) ==
    IF next_pay_date > maturity_date THEN <<>>
    ELSE <<YearFrac(current_date - effective_date),
           YearFrac(next_pay_date - effective_date)>>
         \o CouponTimes(next_pay_date,
                        next_payment_date(next_pay_date, payment_dates),
                        maturity_date, payment_dates)

MtmTimes(maturity_date, payment_dates) ==
    GridTimes(maturity_date - effective_date)
        \o CouponTimes(effective_date,
                       next_payment_date(effective_date, payment_dates),
                       maturity_date, payment_dates)

\* the exception an evaluation of (d_)standard_cds_mtm_value raises: that of
\* its first failing call of Q_h
FirstRaise(times, h_i, prev_h) ==
    LET bad == {n \in DOMAIN times : Q_h_raises(times[n], h_i, prev_h) # ""}
    IN  IF bad = {} THEN "" ELSE Q_h_raises(times[Min(bad)], h_i, prev_h)

Mtm_raises(h_i, maturity_date, prev_h, payment_dates) ==
    FirstRaise(MtmTimes(maturity_date, payment_dates), h_i, prev_h)

\* b of standard_cds_mtm_value after k rounds of the loop
RECURSIVE ProtectionSum(_, _, _, _)
ProtectionSum(k, T_days, h_i, prev_h) ==
    IF k = 0 THEN 0
    ELSE ProtectionSum(k - 1, T_days, h_i, prev_h)
         + (((Z(s(k - 1, T_days)) + Z(s(k, T_days)))
               * (Q_h(s(k - 1, T_days), h_i, prev_h) - Q_h(s(k, T_days), h_i, prev_h)))
            \div QS)

\* d of standard_cds_mtm_value, in days (delta_t * 360)
RECURSIVE PremiumSum(_, _, _, _, _, _)
PremiumSum(current_date, next_pay_date, maturity_date, h_i, prev_h, payment_dates) ==
    IF next_pay_date > maturity_date THEN 0
    ELSE (next_pay_date - current_date)
            * ((Z(YearFrac(next_pay_date - effective_date))
                  * (Q_h(YearFrac(current_date - effective_date), h_i, prev_h)
                       + Q_h(YearFrac(next_pay_date - effective_date), h_i, prev_h)))
               \div QS)
         + PremiumSum(next_pay_date,
                      next_payment_date(next_pay_date, payment_dates),
                      maturity_date, h_i, prev_h, payment_dates)

\* spread_maturity_dates.index(maturity_date)
IndexOf(maturity_date) ==
    Min({j \in 1..NPillars : spread_maturity_dates[j] = maturity_date})

\* a*b - c*d, times 2*QS
standard_cds_mtm_value(h_i, maturity_date, prev_h) ==
    LET T_days == maturity_date - effective_date
        b == ProtectionSum(K(T_days), T_days, h_i, prev_h)
        d == PremiumSum(effective_date,
                        next_payment_date(effective_date, standard_cds_payment_dates),
                        maturity_date, h_i, prev_h, standard_cds_payment_dates)
    IN  (100 - R_standard) * b
            - TimesOver360(spread_data[IndexOf(maturity_date)], d)

RECURSIVE DProtectionSum(_, _, _, _)
DProtectionSum(k, T_days, h_i, prev_h) ==
    IF k = 0 THEN 0
    ELSE DProtectionSum(k - 1, T_days, h_i, prev_h)
         + (((Z(s(k - 1, T_days)) + Z(s(k, T_days)))
               * (diff_Q_h(s(k - 1, T_days), h_i, prev_h)
                    - diff_Q_h(s(k, T_days), h_i, prev_h)))
            \div QS)

\* a premium sum that discounts each coupon to the start of its period
RECURSIVE DPremiumSumAtStart(_, _, _, _, _, _)
DPremiumSumAtStart(current_date, next_pay_date, maturity_date, h_i, prev_h, payment_dates) ==
    IF next_pay_date > maturity_date THEN 0
    ELSE (next_pay_date - current_date)
            * ((Z(YearFrac(current_date - effective_date))
                  * (diff_Q_h(YearFrac(current_date - effective_date), h_i, prev_h)
                       + diff_Q_h(YearFrac(next_pay_date - effective_date), h_i, prev_h)))
               \div QS)
         + DPremiumSumAtStart(next_pay_date,
                              next_payment_date(next_pay_date, payment_dates),
                              maturity_date, h_i, prev_h, payment_dates)

RECURSIVE DPremiumSum(_, _, _, _, _, _)
DPremiumSum(current_date, next_pay_date, maturity_date, h_i, prev_h, payment_dates) ==
    IF next_pay_date > maturity_date THEN 0
    ELSE (next_pay_date - current_date)
            * ((Z(YearFrac(next_pay_date - effective_date))
                  * (diff_Q_h(YearFrac(current_date - effective_date), h_i, prev_h)
                       + diff_Q_h(YearFrac(next_pay_date - effective_date), h_i, prev_h)))
               \div QS)
         + DPremiumSum(next_pay_date,
                       next_payment_date(next_pay_date, payment_dates),
                       maturity_date, h_i, prev_h, payment_dates)

d_standard_cds_mtm_value(h_i, maturity_date, prev_h) ==
    LET T_days == maturity_date - effective_date
        b == DProtectionSum(K(T_days), T_days, h_i, prev_h)
        d == DPremiumSum(effective_date,
                         next_payment_date(effective_date, standard_cds_payment_dates),
                         maturity_date, h_i, prev_h, standard_cds_payment_dates)
    IN  (100 - R_standard) * b
            - TimesOver360(spread_data[IndexOf(maturity_date)], d)

----------------------------------------------------------------------------
(* What the two valuation functions traverse: the subintervals of the      *)
(* protection-leg loop with their discount weights, the coupon periods of  *)
(* the premium-leg loop, and the scale factors a and c (both times 2)      *)

\* standard_cds_mtm_value: for k in range(K(T))
ProtectionGrid(T_days) ==
    [n \in 1..K(T_days) |->
        [from |-> s(n - 1, T_days), to |-> s(n, T_days),
         weight |-> Z(s(n - 1, T_days)) + Z(s(n, T_days))]]

\* standard_cds_mtm_value: while next_pay_date <= maturity_date
RECURSIVE CouponPeriods(_, _, _, _, _)
CouponPeriods(start_date, current_date, next_pay_date, maturity_date, payment_dates) ==
    IF next_pay_date > maturity_date THEN <<>>
    ELSE << [start |-> current_date, end |-> next_pay_date,
             delta_t |-> next_pay_date - current_date,
             t_1 |-> YearFrac(current_date - start_date),
             t_2 |-> YearFrac(next_pay_date - start_date),
             discount |-> Z(YearFrac(next_pay_date - start_date))] >>
         \o CouponPeriods(start_date, next_pay_date,
                          next_payment_date(next_pay_date, payment_dates),
                          maturity_date, payment_dates)

MtmScales(maturity_date) ==
    [a |-> 100 - R_standard, c |-> spread_data[IndexOf(maturity_date)]]

\* d_standard_cds_mtm_value: for k in range(K(T))
DProtectionGrid(T_days) ==
    [n \in 1..K(T_days) |->
        [from |-> s(n - 1, T_days), to |-> s(n, T_days),
         weight |-> Z(s(n - 1, T_days)) + Z(s(n, T_days))]]

\* d_standard_cds_mtm_value: while next_pay_date <= maturity_date
RECURSIVE DCouponPeriods(_, _, _, _, _)
DCouponPeriods(start_date, current_date, next_pay_date, maturity_date, payment_dates) ==
    IF next_pay_date > maturity_date THEN <<>>
    ELSE << [start |-> current_date, end |-> next_pay_date,
             delta_t |-> next_pay_date - current_date,
             t_1 |-> YearFrac(current_date - start_date),
             t_2 |-> YearFrac(next_pay_date - start_date),
             discount |-> Z(YearFrac(next_pay_date - start_date))] >>
         \o DCouponPeriods(start_date, next_pay_date,
                           next_payment_date(next_pay_date, payment_dates),
                           maturity_date, payment_dates)

DMtmScales(maturity_date) ==
    [a |-> 100 - R_standard, c |-> spread_data[IndexOf(maturity_date)]]

\* the survival term of either function: Q_h, or diff_Q_h in the derivative
Survival(derivative, t, h_i, prev_h) ==
    IF derivative THEN diff_Q_h(t, h_i, prev_h) ELSE Q_h(t, h_i, prev_h)

\* b accumulated over the first n subintervals of a grid
RECURSIVE LegOverGrid(_, _, _, _, _)
LegOverGrid(grid, n, derivative, h_i, prev_h) ==
    IF n = 0 THEN 0
    ELSE LegOverGrid(grid, n - 1, derivative, h_i, prev_h)
         + ((grid[n].weight
               * (Survival(derivative, grid[n].from, h_i, prev_h)
                    - Survival(derivative, grid[n].to, h_i, prev_h)))
            \div QS)

\* d accumulated over the first n coupon periods
RECURSIVE LegOverPeriods(_, _, _, _, _)
LegOverPeriods(periods, n, derivative, h_i, prev_h) ==
    IF n = 0 THEN 0
    ELSE LegOverPeriods(periods, n - 1, derivative, h_i, prev_h)
         + periods[n].delta_t
             * ((periods[n].discount
                   * (Survival(derivative, periods[n].t_1, h_i, prev_h)
                        + Survival(derivative, periods[n].t_2, h_i, prev_h)))
                \div QS)

\* a*b - c*d over a traversal
ValueOver(grid, periods, scales, derivative, h_i, prev_h) ==
    scales.a * LegOverGrid(grid, Len(grid), derivative, h_i, prev_h)
        - TimesOver360(scales.c,
                       LegOverPeriods(periods, Len(periods), derivative, h_i, prev_h))

----------------------------------------------------------------------------
(* Finished curve and non-standard pricing *)

\* the index of the first pillar with dat <= mat_date; NPillars + 1 if none
QueryIndex(dat) ==
    LET at_or_after == {j \in 1..NPillars : dat <= spread_maturity_dates[j]}
    IN  IF at_or_after = {} THEN NPillars + 1 ELSE Min(at_or_after)

\* the rate Q hands to Q_h: h_values[mat_date], or list(h_values.values())[-1]
QueryRate(dat) ==
    IF QueryIndex(dat) <= NPillars
    THEN Get(h_values, spread_maturity_dates[QueryIndex(dat)])
    ELSE h_values[Len(h_values)].val

Q_raises(dat) ==
    IF dat < effective_date THEN ""
    ELSE IF QueryIndex(dat) <= NPillars
            /\ ~HasKey(h_values, spread_maturity_dates[QueryIndex(dat)])
    THEN "KeyError"
    ELSE IF QueryIndex(dat) > NPillars /\ Len(h_values) = 0 THEN "IndexError"
    ELSE Q_h_raises(YearFrac(dat - effective_date), QueryRate(dat), h_values)

Q(dat) ==
    IF dat < effective_date THEN 0
    ELSE Q_h(YearFrac(dat - effective_date), QueryRate(dat), h_values)

\* the h_t that Q(dat) exponentiates
QueryHazard(dat) ==
    HazardIntegral(YearFrac(dat - effective_date), QueryRate(dat), h_values)

\* date_s_k = ns_effective_date + relativedelta(days=s(k, T)*360): the float
\* day count goes through a timedelta, which rounds it to the microsecond and
\* adds its whole days
DateOfGrid(k, T_days) == ns_effective_date + ((k * T_days) \div K(T_days))

\* the dates at which nonstandard_cds_mtm_value evaluates Q, in call order
RECURSIVE NsCouponDates(_, _, _, _)
NsCouponDates(current_date, next_pay_date, maturity_date, payment_dates) ==
    IF next_pay_date > maturity_date THEN <<>>
    ELSE <<current_date, next_pay_date>>
         \o NsCouponDates(next_pay_date,
                          next_payment_date(next_pay_date, payment_dates),
                          maturity_date, payment_dates)

NsDates(maturity_date) ==
    [n \in 1..(2 * K(maturity_date - ns_effective_date)) |->
        DateOfGrid(n \div 2, maturity_date - ns_effective_date)]
    \o NsCouponDates(ns_effective_date,
                     next_payment_date(ns_effective_date, nonstandard_cds_payment_dates),
                     maturity_date, nonstandard_cds_payment_dates)

FirstQueryRaise(dates) ==
    LET bad == {n \in DOMAIN dates : Q_raises(dates[n]) # ""}
    IN  IF bad = {} THEN "" ELSE Q_raises(dates[Min(bad)])

nonstandard_raises(maturity_date) == FirstQueryRaise(NsDates(maturity_date))

RECURSIVE NsProtectionSum(_, _)
NsProtectionSum(k, T_days) ==
    IF k = 0 THEN 0
    ELSE NsProtectionSum(k - 1, T_days)
         + (((Z(s(k - 1, T_days)) + Z(s(k, T_days)))
               * (Q(DateOfGrid(k - 1, T_days)) - Q(DateOfGrid(k, T_days))))
            \div QS)

RECURSIVE NsPremiumSum(_, _, _, _)
NsPremiumSum(current_date, next_pay_date, maturity_date, payment_dates) ==
    IF next_pay_date > maturity_date THEN 0
    ELSE (next_pay_date - current_date)
            * ((Z(YearFrac(next_pay_date - ns_effective_date))
                  * (Q(current_date) + Q(next_pay_date)))
               \div QS)
         + NsPremiumSum(next_pay_date,
                        next_payment_date(next_pay_date, payment_dates),
                        maturity_date, payment_dates)

\* a*b - c*d, times 2*QS
nonstandard_cds_mtm_value(maturity_date) ==
    LET T_days == maturity_date - ns_effective_date
        b == NsProtectionSum(K(T_days), T_days)
        d == NsPremiumSum(ns_effective_date,
                          next_payment_date(ns_effective_date, nonstandard_cds_payment_dates),
                          maturity_date, nonstandard_cds_payment_dates)
    IN  (100 - R_nonstandard) * b - TimesOver360(spread_nonstandard, d)

----------------------------------------------------------------------------
(* Root finder *)

X0 == 1          \* x = 0.01
Eps == 2000      \* eps, in units of 1/(2*QS): the tolerance at the resolution of the rate grid
DFloor == 0      \* sqrt(machine epsilon), 1.5e-8, in units of 1/(2*QS)

\* The functions handed to newton_raphson_method.  The calibration loop hands
\* it standard_cds_mtm_value and d_standard_cds_mtm_value; a direct caller may
\* hand it any pair: here a*u^3 + b*u + c in u = x - 0.01 on |u| <= 10,
\* continued flat, with its derivative.
MtmFn == [kind |-> "mtm", a |-> 0, b |-> 0, c |-> 0]
CubicWindow == 1000
CubicFns == [kind : {"cubic"}, a : {0, 1}, b : -2..2, c : -2..2]

Clamp(u) ==
    IF u > CubicWindow THEN CubicWindow
    ELSE IF u < -CubicWindow THEN -CubicWindow ELSE u

CubicValue(f, xx) ==
    LET u == Clamp(xx - X0)
    IN  f.a * ((u * u * u) \div 50) + 200 * f.b * u + 20000 * f.c

CubicDeriv(f, xx) ==
    IF Abs(xx - X0) > CubicWindow THEN 0
    ELSE 6 * f.a * (xx - X0) * (xx - X0) + 20000 * f.b

\* f(x, maturity_date, prev_h), d_f(x, maturity_date, prev_h) and what they raise
F(f, xx, maturity_date, prev_h) ==
    IF f.kind = "mtm" THEN standard_cds_mtm_value(xx, maturity_date, prev_h)
    ELSE CubicValue(f, xx)

DF(f, xx, maturity_date, prev_h) ==
    IF f.kind = "mtm" THEN d_standard_cds_mtm_value(xx, maturity_date, prev_h)
    ELSE CubicDeriv(f, xx)

F_raises(f, xx, maturity_date, prev_h) ==
    IF f.kind = "mtm"
    THEN Mtm_raises(xx, maturity_date, prev_h, standard_cds_payment_dates)
    ELSE ""

\* float(val) / diff in rate units, rounded to the nearest
NewtonQuotient(val, diff) ==
    LET sv == IF diff < 0 THEN -val ELSE val
        sd == Abs(diff)
        g  == 1 + (sd \div 1000000)        \* keeps the products inside 32 bits
    IN  XS * (sv \div sd)
            + ((2 * XS * ((sv % sd) \div g) + (sd \div g)) \div (2 * (sd \div g)))

\* the quotient leaves the rates the model follows
QuotientTooLarge(val, diff) == Abs(val) \div Abs(diff) > MaxX

\* np.abs(diff) > np.sqrt(np.finfo(float).eps)
AboveFloor(diff) == Abs(diff) > DFloor

\* variant of NotConverged with the tolerance ten times too wide
NotConvergedLoose(val) == Abs(val) > 10 * Eps

\* abs(val) > eps
NotConverged(val) == Abs(val) > Eps

\* the pillar the running call solves
CurrentMaturity == spread_maturity_dates[mat_idx]

\* newton_raphson_method returns res; in the calibration loop the return is
\* followed by h_values[mat_date] = h and the step to the next pillar
Return(res) ==
    /\ h_ret' = res
    /\ returns' = Append(returns, [pillar |-> mat_idx, result |-> res, value |-> nr_val])
    /\ IF caller = "calibration"
       THEN /\ h_values' = DictSet(h_values, CurrentMaturity, res)
            /\ mat_idx' = mat_idx + 1
            /\ pc' = IF mat_idx = NPillars THEN "done" ELSE "calibrate"
       ELSE /\ pc' = "returned"
            /\ UNCHANGED <<h_values, mat_idx>>

\* val = f(x, maturity_date, prev_h), where the evaluation raises `raised`
Evaluate(xx, raised) ==
    IF raised # ""
    THEN /\ pc' = "raised"
         /\ err' = raised
         /\ nr_val' = nr_val
    ELSE /\ pc' = "newton"
         /\ nr_val' = F(fn, xx, CurrentMaturity, h_values)
         /\ err' = err

\* val = f(x, maturity_date, prev_h) before the loop, x at its default
Enter ==
    /\ nr_x' = X0
    /\ nr_iter' = 0
    /\ nr_diff' = 0
    /\ Evaluate(X0, F_raises(fn, X0, CurrentMaturity, h_values))

\* for mat_date in spread_maturity_dates: h = newton_raphson_method(...)
CalibrationCall ==
    /\ pc = "calibrate"
    /\ calls' = Append(calls, [pillar |-> mat_idx, map |-> h_values])
    /\ Enter
    /\ UNCHANGED <<spread_maturity_dates, spread_data, h_values, caller, mat_idx,
                   fn, h_ret, returns, q_out, ns_out, probe>>

\* newton_raphson_method(f, d_f, maturity_date, {}) called on its own
DirectCall ==
    /\ pc = "call"
    /\ calls' = Append(calls, [pillar |-> mat_idx, map |-> h_values])
    /\ Enter
    /\ UNCHANGED <<spread_maturity_dates, spread_data, h_values, caller, mat_idx,
                   fn, h_ret, returns, q_out, ns_out, probe>>

\* x = x - float(val) / diff; val = f(x, maturity_date, prev_h)
Update(nx) ==
    IF nx \notin 0..MaxX
    THEN /\ pc' = "range"
         /\ UNCHANGED <<nr_x, nr_val, nr_iter, err>>
    ELSE /\ nr_x' = nx
         /\ nr_iter' = IF nr_iter < IterCap THEN nr_iter + 1 ELSE nr_iter
         /\ Evaluate(nx, F_raises(fn, nx, CurrentMaturity, h_values))

\* the body of the while loop, diff = d_f(x, maturity_date, prev_h)
Round(diff) ==
    /\ nr_diff' = diff
    /\ IF AboveFloor(diff)
       THEN /\ Update(IF QuotientTooLarge(nr_val, diff) THEN MaxX + 1
                      ELSE nr_x - NewtonQuotient(nr_val, diff))
            /\ UNCHANGED <<h_ret, h_values, mat_idx, returns>>
       ELSE /\ Return(NoneVal)
            /\ UNCHANGED <<nr_x, nr_val, nr_iter, err>>

\* one round of the while loop
NewtonIterate ==
    /\ pc = "newton"
    /\ NotConverged(nr_val)
    /\ Round(DF(fn, nr_x, CurrentMaturity, h_values))
    /\ UNCHANGED <<spread_maturity_dates, spread_data, caller, fn, calls,
                   q_out, ns_out, probe>>

\* the while condition is false: return x
NewtonConverged ==
    /\ pc = "newton"
    /\ ~NotConverged(nr_val)
    /\ Return(nr_x)
    /\ UNCHANGED <<spread_maturity_dates, spread_data, caller, fn, nr_x, nr_val,
                   nr_diff, nr_iter, err, calls, q_out, ns_out, probe>>

----------------------------------------------------------------------------
(* Cells run after the calibration loop *)

\* the dates Q is asked at
QueryDates ==
    {effective_date - 1, effective_date, effective_date + 13, effective_date + 100}
        \cup {spread_maturity_dates[j] + o : j \in 1..NPillars, o \in {0, 1, 30, 360}}

\* the maturities the non-standard contract is priced at
NsMaturities == {date(2014, 8, 15), date(2015, 5, 15)}

NoOutput == [at |-> 0, raises |-> "", value |-> 0, hazard |-> 0]

Answer(dat, raised) ==
    IF raised # ""
    THEN [at |-> dat, raises |-> raised, value |-> 0, hazard |-> 0]
    ELSE [at |-> dat, raises |-> "", value |-> Q(dat),
          hazard |-> IF dat < effective_date THEN 0 ELSE QueryHazard(dat)]

\* variant of QueryQ that also stores the rate it looked up under the queried date
QueryAndStore(dat) ==
    /\ pc = "done"
    /\ pc' = "queried"
    /\ q_out' = Answer(dat, Q_raises(dat))
    /\ h_values' = IF Q_raises(dat) = "" /\ dat >= effective_date
                   THEN DictSet(h_values, dat, QueryRate(dat)) ELSE h_values
    /\ UNCHANGED <<spread_maturity_dates, spread_data, caller, mat_idx,
                   fn, nr_x, nr_val, nr_diff, nr_iter, h_ret, err, calls, returns, ns_out,
                   probe>>

\* Q(dat)
QueryQ(dat) ==
    /\ pc = "done"
    /\ pc' = "queried"
    /\ q_out' = Answer(dat, Q_raises(dat))
    /\ UNCHANGED <<spread_maturity_dates, spread_data, h_values, caller, mat_idx,
                   fn, nr_x, nr_val, nr_diff, nr_iter, h_ret, err, calls, returns, ns_out,
                   probe>>

Price(maturity_date, raised) ==
    IF raised # ""
    THEN [at |-> maturity_date, raises |-> raised, value |-> 0, hazard |-> 0]
    ELSE [at |-> maturity_date, raises |-> "",
          value |-> nonstandard_cds_mtm_value(maturity_date), hazard |-> 0]

\* nonstandard_cds_mtm_value(maturity_date)
PriceNonStandard(maturity_date) ==
    /\ pc = "queried"
    /\ pc' = "priced"
    /\ ns_out' = Price(maturity_date, nonstandard_raises(maturity_date))
    /\ UNCHANGED <<spread_maturity_dates, spread_data, h_values, caller, mat_idx,
                   fn, nr_x, nr_val, nr_diff, nr_iter, h_ret, err, calls, returns, q_out,
                   probe>>

----------------------------------------------------------------------------
(* The notebook: calibration, then queries *)

SpreadSet == {103, 500, 3000}

NoProbe == <<>>

Init ==
    /\ \E n \in 1..MaxPillars :
          /\ spread_maturity_dates = AdjustedMaturityDates(n)
          /\ spread_data \in [1..n -> SpreadSet]
    /\ h_values = <<>>
    /\ pc = "calibrate"
    /\ caller = "calibration"
    /\ mat_idx = 1
    /\ fn = MtmFn
    /\ nr_x = 0 /\ nr_val = 0 /\ nr_diff = 0 /\ nr_iter = 0
    /\ h_ret = 0
    /\ err = ""
    /\ calls = <<>>
    /\ returns = <<>>
    /\ q_out = NoOutput
    /\ ns_out = NoOutput
    /\ probe = NoProbe

Next ==
    \/ CalibrationCall
    \/ NewtonIterate
    \/ NewtonConverged
    \/ \E dat \in QueryDates : QueryQ(dat)
    \/ \E maturity_date \in NsMaturities : PriceNonStandard(maturity_date)

Spec == Init /\ [][Next]_vars

----------------------------------------------------------------------------
(* newton_raphson_method on its own, for any pair of functions *)

InitNewton ==
    /\ spread_maturity_dates = AdjustedMaturityDates(1)
    /\ spread_data = [j \in 1..1 |-> 103]
    /\ h_values = <<>>
    /\ pc = "call"
    /\ caller = "direct"
    /\ mat_idx = 1
    /\ fn \in CubicFns \cup {MtmFn}
    /\ nr_x = 0 /\ nr_val = 0 /\ nr_diff = 0 /\ nr_iter = 0
    /\ h_ret = 0
    /\ err = ""
    /\ calls = <<>>
    /\ returns = <<>>
    /\ q_out = NoOutput
    /\ ns_out = NoOutput
    /\ probe = NoProbe

NextNewton == DirectCall \/ NewtonIterate \/ NewtonConverged

SpecNewton == InitNewton /\ [][NextNewton]_vars

\* the calls on the polynomial pairs; the interpreter keeps running a call
\* that has not returned
InitPolynomial == InitNewton /\ fn \in CubicFns

FairSpecNewton == InitPolynomial /\ [][NextNewton]_vars /\ WF_vars(NextNewton)

----------------------------------------------------------------------------
(* Q_h and diff_Q_h on their own: the calls the valuation engine makes      *)
(* while a pillar is calibrated (the map holds the pillars solved so far,   *)
(* h_i is the candidate) and the calls Q makes on the finished map          *)

RateSet == {50, 191, 212}

\* day counts from the effective date; the pillars are at 205, 384 and 751
ProbeDays == {0, 100, 205, 206, 207, 384, 385, 751, 800}

InitQh ==
    /\ \E n \in 1..MaxPillars :
          /\ spread_maturity_dates = AdjustedMaturityDates(n)
          /\ spread_data = [j \in 1..n |-> 103]
          /\ \E m \in 0..n : \E rates \in [1..m -> RateSet] :
                h_values = [j \in 1..m |->
                               [key |-> spread_maturity_dates[j], val |-> rates[j]]]
    /\ pc = "probe"
    /\ caller = "probe"
    /\ mat_idx = 1
    /\ fn = MtmFn
    /\ nr_x = 0 /\ nr_val = 0 /\ nr_diff = 0 /\ nr_iter = 0
    /\ h_ret = 0
    /\ err = ""
    /\ calls = <<>>
    /\ returns = <<>>
    /\ q_out = NoOutput
    /\ ns_out = NoOutput
    /\ probe = NoProbe

Measure(t, h_i, raised) ==
    IF raised # ""
    THEN [t |-> t, raises |-> raised, q |-> 0, dq |-> 0, hazard |-> 0]
    ELSE [t |-> t, raises |-> "", q |-> Q_h(t, h_i, h_values),
          dq |-> diff_Q_h(t, h_i, h_values),
          hazard |-> HazardIntegral(t, h_i, h_values)]

\* Q_h(t, h_i, h_values) and diff_Q_h(t, h_i, h_values) at two times, one candidate
ProbeQh(d1, d2, h_i) ==
    /\ pc = "probe"
    /\ d1 <= d2
    /\ pc' = "probed"
    /\ probe' = [h_i |-> h_i,
                 first  |-> Measure(YearFrac(d1), h_i,
                                    Q_h_raises(YearFrac(d1), h_i, h_values)),
                 second |-> Measure(YearFrac(d2), h_i,
                                    Q_h_raises(YearFrac(d2), h_i, h_values))]
    /\ UNCHANGED <<spread_maturity_dates, spread_data, h_values, caller, mat_idx,
                   fn, nr_x, nr_val, nr_diff, nr_iter, h_ret, err, calls, returns,
                   q_out, ns_out>>

NextQh == \E d1 \in ProbeDays, d2 \in ProbeDays, h_i \in RateSet : ProbeQh(d1, d2, h_i)

SpecQh == InitQh /\ [][NextQh]_vars

----------------------------------------------------------------------------
(* The schedule functions on their own: weekend_rollover, next_payment_date *)
(* and the premium-leg walk, applied to a date and a payment cycle         *)

DateSpan == 1100

Cycles == {"standard", "nonstandard"}

PaymentDates(cycle) ==
    IF cycle = "standard" THEN standard_cds_payment_dates
    ELSE nonstandard_cds_payment_dates

InitSchedule ==
    /\ spread_maturity_dates = AdjustedMaturityDates(1)
    /\ spread_data = [j \in 1..1 |-> 103]
    /\ h_values = <<>>
    /\ pc = "schedule"
    /\ caller = "schedule"
    /\ mat_idx = 1
    /\ fn = MtmFn
    /\ nr_x = 0 /\ nr_val = 0 /\ nr_diff = 0 /\ nr_iter = 0
    /\ h_ret = 0
    /\ err = ""
    /\ calls = <<>>
    /\ returns = <<>>
    /\ q_out = NoOutput
    /\ ns_out = NoOutput
    /\ \E dat \in effective_date..(effective_date + DateSpan), cycle \in Cycles :
          probe = [dat |-> dat, cycle |-> cycle]

\* weekend_rollover(dat), and weekend_rollover of its result
CallWeekendRollover ==
    /\ pc = "schedule"
    /\ pc' = "rolled"
    /\ probe' = [dat |-> probe.dat, cycle |-> probe.cycle,
                 out |-> weekend_rollover(probe.dat),
                 again |-> weekend_rollover(weekend_rollover(probe.dat))]
    /\ UNCHANGED <<spread_maturity_dates, spread_data, h_values, caller, mat_idx,
                   fn, nr_x, nr_val, nr_diff, nr_iter, h_ret, err, calls, returns,
                   q_out, ns_out>>

\* next_payment_date(dat, payment_dates)
CallNextPaymentDate ==
    /\ pc = "schedule"
    /\ pc' = "paid"
    /\ probe' = [dat |-> probe.dat, cycle |-> probe.cycle,
                 out |-> next_payment_date(probe.dat, PaymentDates(probe.cycle))]
    /\ UNCHANGED <<spread_maturity_dates, spread_data, h_values, caller, mat_idx,
                   fn, nr_x, nr_val, nr_diff, nr_iter, h_ret, err, calls, returns,
                   q_out, ns_out>>

WalkStart(cycle) == IF cycle = "standard" THEN effective_date ELSE ns_effective_date

\* the premium-leg loop of the valuation functions up to the maturity dat
CallWalk ==
    /\ pc = "schedule"
    /\ pc' = "walked"
    /\ probe' = [dat |-> probe.dat, cycle |-> probe.cycle,
                 periods |-> CouponPeriods(WalkStart(probe.cycle),
                                 WalkStart(probe.cycle),
                                 next_payment_date(WalkStart(probe.cycle),
                                                   PaymentDates(probe.cycle)),
                                 probe.dat, PaymentDates(probe.cycle))]
    /\ UNCHANGED <<spread_maturity_dates, spread_data, h_values, caller, mat_idx,
                   fn, nr_x, nr_val, nr_diff, nr_iter, h_ret, err, calls, returns,
                   q_out, ns_out>>

GridDays == 130

GridRate == 191

\* int(t*360) of the two endpoints of each subinterval of a grid
GridDayCounts(grid) ==
    [n \in DOMAIN grid |->
        [from |-> TimeToDays(grid[n].from), to |-> TimeToDays(grid[n].to)]]

\* T, K(T) and the protection-leg loop of standard_cds_mtm_value for the
\* maturity dat
CallGrid ==
    /\ pc = "schedule"
    /\ probe.dat - effective_date <= GridDays
    /\ pc' = "gridded"
    /\ probe' = [dat |-> probe.dat, cycle |-> probe.cycle,
                 T_days |-> probe.dat - effective_date,
                 K |-> K(probe.dat - effective_date),
                 grid |-> GridDayCounts(ProtectionGrid(probe.dat - effective_date)),
                 leg |-> ProtectionSum(K(probe.dat - effective_date),
                                       probe.dat - effective_date, GridRate, h_values)]
    /\ UNCHANGED <<spread_maturity_dates, spread_data, h_values, caller, mat_idx,
                   fn, nr_x, nr_val, nr_diff, nr_iter, h_ret, err, calls, returns,
                   q_out, ns_out>>

NextSchedule ==
    \/ CallWeekendRollover
    \/ CallNextPaymentDate
    \/ CallWalk
    \/ CallGrid

SpecSchedule == InitSchedule /\ [][NextSchedule]_vars

----------------------------------------------------------------------------
(* Properties *)

AfterLoop == pc \in {"done", "queried", "priced"}

LastPillar == spread_maturity_dates[NPillars]

\* C1: newton_raphson_method returns a rate x only if |f(x)| <= eps at that
\* very x, and returns None only if at the iterate it stopped at |f(x)| > eps
\* and |d_f(x)| <= the floor; the step that finds the derivative at or below
\* the floor updates neither x nor val.
C1_ReturnStep ==
    (pc = "newton" /\ pc' = "returned") =>
        \/ /\ h_ret' # NoneVal
           /\ h_ret' = nr_x
           /\ Abs(F(fn, nr_x, CurrentMaturity, h_values)) <= Eps
        \/ /\ h_ret' = NoneVal
           /\ Abs(F(fn, nr_x, CurrentMaturity, h_values)) > Eps
           /\ Abs(DF(fn, nr_x, CurrentMaturity, h_values)) <= DFloor
           /\ nr_x' = nr_x
           /\ nr_val' = nr_val
C1_TwoOutcomes == [][C1_ReturnStep]_vars

\* a call has stalled after at least one update of x
C1_Witness == pc = "returned" /\ h_ret = NoneVal /\ nr_iter >= 1

\* C2: every call of newton_raphson_method comes to an end, for any pair of
\* functions: it returns (a rate or None) or an evaluation raises.
C2_Terminates == <>(pc \in {"returned", "raised", "range"})

\* C3: the hazard map never holds None: a pillar whose root-find returned None
\* gets no entry.
C3_NoEntryForFailedPillar == \A j \in DOMAIN h_values : h_values[j].val # NoneVal

\* C4: no root-find is started after a failed one: every root-find the
\* calibration loop starts is handed a map without a hole.
C4_HaltsAtFailedPillar ==
    \A c \in DOMAIN calls :
        /\ \A j \in DOMAIN calls[c].map : calls[c].map[j].val # NoneVal
        /\ \A r \in DOMAIN returns :
              returns[r].pillar < calls[c].pillar => returns[r].result # NoneVal

\* C5: the calibration loop is append-only in ascending maturity order: when
\* the solve of the i-th pillar begins the keys are the first i-1 pillar dates,
\* in that order; a step that changes the map appends one item whose key is
\* larger than every key present and leaves the items present as they are.
KeysInOrder ==
    /\ Len(h_values) = mat_idx - 1
    /\ \A j \in DOMAIN h_values : h_values[j].key = spread_maturity_dates[j]
C5_Step ==
    /\ pc = "calibrate" => KeysInOrder
    /\ pc' = "calibrate" => KeysInOrder'
    /\ h_values' # h_values =>
          /\ Len(h_values') = Len(h_values) + 1
          /\ SubSeq(h_values', 1, Len(h_values)) = h_values
          /\ \A j \in DOMAIN h_values :
                h_values[j].key < h_values'[Len(h_values')].key
C5_AppendOnly == [][C5_Step]_vars

\* the loop has written three entries
C5_Witness == pc = "done" /\ Len(h_values) = 3

\* C6: after the calibration loop, for every pillar whose solve returned a
\* rate, standard_cds_mtm_value at the stored rate against the final map is
\* the value the solve ended with against the partial map, and is within eps.
C6_RoundTrip ==
    pc = "done" =>
        \A r \in DOMAIN returns :
            returns[r].result # NoneVal =>
                /\ HasKey(h_values, spread_maturity_dates[returns[r].pillar])
                /\ standard_cds_mtm_value(
                       Get(h_values, spread_maturity_dates[returns[r].pillar]),
                       spread_maturity_dates[returns[r].pillar], h_values)
                   = returns[r].value
                /\ Abs(returns[r].value) <= Eps

\* three pillars were solved; the first is re-evaluated against a map that
\* holds two later entries
C6_Witness ==
    /\ pc = "done"
    /\ Len(returns) = 3
    /\ \A r \in DOMAIN returns : returns[r].result # NoneVal

\* C7: for a fixed candidate and map, Q_h is non-increasing in t and lies in
\* (0, 1]: for t1 <= t2 the hazard integral at t1 is at most that at t2.
C7_NonIncreasing ==
    (pc = "probed" /\ probe.first.raises = "" /\ probe.second.raises = "") =>
        /\ probe.first.hazard <= probe.second.hazard
        /\ probe.second.q <= probe.first.q
        /\ probe.first.q \in 1..QS
        /\ probe.second.q \in 1..QS

\* C8: Q at a date beyond the last pillar exponentiates the integral up to the
\* last pillar plus last_rate * (dat - last pillar).days / 360.
C8_FlatExtrapolation ==
    (AfterLoop /\ q_out.raises = "" /\ q_out.at > LastPillar) =>
        q_out.hazard
            = SolvedPart(NPillars, h_values)
                + h_values[Len(h_values)].val * (q_out.at - LastPillar)

\* C9: while pillar i is calibrated, for a time whose end date is at or before
\* the previous pillar date, diff_Q_h is 0 and Q_h is the same for every h_i.
C9_SolvedHistory ==
    (/\ pc = "probed"
     /\ probe.first.raises = ""
     /\ Len(h_values) \in 1..(NPillars - 1)
     /\ EndDate(probe.first.t) <= spread_maturity_dates[Len(h_values)]) =>
        /\ probe.first.dq = 0
        /\ \A h \in RateSet : Q_h(probe.first.t, h, h_values) = probe.first.q

\* C10: pricing the non-standard contract at a maturity later than the last
\* pillar raises.
C10_FailsBeyondRange ==
    (pc = "priced" /\ ns_out.at > LastPillar) => ns_out.raises # ""

Queried == pc \in {"queried", "priced"}

AllSolved == \A j \in DOMAIN h_values : h_values[j].val # NoneVal

\* exp(-h) is above 0 on the fixed-point grid
Resolved(h) == h <= 9 * XS * 360

\* C11: for every query date, also one before the effective date, Q returns a
\* survival probability in (0, 1]; it never returns 0.
C11_SurvivalInUnitInterval ==
    (Queried /\ q_out.raises = "" /\ Resolved(q_out.hazard)) =>
        q_out.value \in 1..QS

\* the piecewise-constant reference integral at dat, from pillar j on: every
\* interval that ends before dat at its own rate and full length, the
\* interval that contains dat at its own rate up to dat
RECURSIVE ReferenceIntegral(_, _)
ReferenceIntegral(j, dat) ==
    IF j > NPillars THEN 0
    ELSE IF spread_maturity_dates[j] < dat
    THEN Get(h_values, spread_maturity_dates[j])
            * (spread_maturity_dates[j] - StartDate(j))
         + ReferenceIntegral(j + 1, dat)
    ELSE Get(h_values, spread_maturity_dates[j]) * (dat - StartDate(j))

\* C15: for every query date from the effective date up to the last pillar,
\* the hazard integral that Q exponentiates is the piecewise-constant
\* reference integral.
C15_PiecewiseConstant ==
    (/\ Queried
     /\ AllSolved
     /\ q_out.raises = ""
     /\ q_out.at >= effective_date
     /\ q_out.at <= LastPillar) =>
        q_out.hazard = ReferenceIntegral(1, q_out.at)

\* C16: the hazard map is written only by the calibration loop's
\* h_values[mat_date] = h: every other step (Q, the pricing of the
\* non-standard contract, the rounds of newton_raphson_method and the
\* evaluations of the valuation functions in them) leaves it as it is.
C16_Step ==
    h_values' # h_values =>
        /\ pc = "newton"
        /\ caller = "calibration"
        /\ pc' \in {"calibrate", "done"}
        /\ h_values' = Append(h_values, [key |-> CurrentMaturity, val |-> h_ret'])
C16_ReadOnlyOutsideLoop == [][C16_Step]_vars

\* Q and the non-standard pricing have run on a map of two or more entries
C16_Witness == pc = "priced" /\ Len(h_values) >= 2 /\ ns_out.raises = ""

\* day counts from the effective date at which the two curves are compared
CurveDays == {0, 100, 205, 300, 384, 751}

\* C17: for every solved pillar i and every date d from the effective date up
\* to pillar i, the survival Q_h(t(d), h_i, h_values) that the valuation of
\* pillar i uses is Q(d) of the finished curve.
C17_CalibrationCurveAgrees ==
    (pc = "done" /\ AllSolved) =>
        \A i \in 1..NPillars : \A o \in CurveDays :
            effective_date + o <= spread_maturity_dates[i] =>
                Q_h(YearFrac(o), Get(h_values, spread_maturity_dates[i]), h_values)
                    = Q(effective_date + o)

\* the anchor dates of a cycle in the year of dat and the next
AnchorDatesNear(dat, payment_dates) ==
    {date(y, payment_dates[n][1], payment_dates[n][2]) :
        y \in YearOf(dat)..(YearOf(dat) + 1), n \in 1..4}

EarliestAnchorAfter(dat, payment_dates) ==
    Min({a \in AnchorDatesNear(dat, payment_dates) : a > dat})

\* C12: for both cycles and every current_date, next_payment_date returns the
\* earliest anchor date strictly after current_date, rolled off the weekend
C12_EarliestAnchor ==
    pc = "paid" =>
        probe.out = weekend_rollover(
                        EarliestAnchorAfter(probe.dat, PaymentDates(probe.cycle)))

\* C13: weekend_rollover moves a Saturday by 2 days, a Sunday by 1 day and
\* leaves Monday to Friday alone; its result is never on a weekend, never
\* earlier than its input, and rolling it again changes nothing
C13_Rollover ==
    pc = "rolled" =>
        /\ weekday(probe.dat) = 5 => probe.out = probe.dat + 2
        /\ weekday(probe.dat) = 6 => probe.out = probe.dat + 1
        /\ weekday(probe.dat) \in 0..4 => probe.out = probe.dat
        /\ weekday(probe.out) \notin {5, 6}
        /\ probe.out >= probe.dat
        /\ probe.again = probe.out

C13_Witness ==
    pc = "rolled" /\ weekday(probe.dat) = 5 /\ probe.out = probe.dat + 2

StandardWalk(maturity_date) ==
    CouponPeriods(effective_date, effective_date,
                  next_payment_date(effective_date, standard_cds_payment_dates),
                  maturity_date, standard_cds_payment_dates)

DStandardWalk(maturity_date) ==
    DCouponPeriods(effective_date, effective_date,
                   next_payment_date(effective_date, standard_cds_payment_dates),
                   maturity_date, standard_cds_payment_dates)

\* C14: at every evaluation of a pillar, standard_cds_mtm_value and
\* d_standard_cds_mtm_value go over the same protection-leg subintervals with
\* the same discount weights, the same coupon periods and the same scale
\* factors; the value is that traversal with Q_h, the derivative the same
\* traversal with diff_Q_h
C14_SameTraversal ==
    (pc = "newton" /\ fn.kind = "mtm") =>
        /\ ProtectionGrid(CurrentMaturity - effective_date)
              = DProtectionGrid(CurrentMaturity - effective_date)
        /\ StandardWalk(CurrentMaturity) = DStandardWalk(CurrentMaturity)
        /\ MtmScales(CurrentMaturity) = DMtmScales(CurrentMaturity)
        /\ standard_cds_mtm_value(nr_x, CurrentMaturity, h_values)
              = ValueOver(ProtectionGrid(CurrentMaturity - effective_date),
                          StandardWalk(CurrentMaturity),
                          MtmScales(CurrentMaturity), FALSE, nr_x, h_values)
        /\ d_standard_cds_mtm_value(nr_x, CurrentMaturity, h_values)
              = ValueOver(DProtectionGrid(CurrentMaturity - effective_date),
                          DStandardWalk(CurrentMaturity),
                          DMtmScales(CurrentMaturity), TRUE, nr_x, h_values)

C14_Witness ==
    /\ pc = "newton" /\ fn.kind = "mtm" /\ mat_idx = 2 /\ nr_iter >= 1
    /\ Len(StandardWalk(CurrentMaturity)) >= 4
    /\ d_standard_cds_mtm_value(nr_x, CurrentMaturity, h_values) # 0

\* the anchor dates of a cycle from 2014 to 2017, rolled off the weekend
RolledAnchorDates(payment_dates) ==
    {weekend_rollover(date(y, payment_dates[n][1], payment_dates[n][2])) :
        y \in 2014..2017, n \in 1..4}

AnchorMaturity ==
    /\ pc = "walked"
    /\ probe.dat \in RolledAnchorDates(PaymentDates(probe.cycle))
    /\ probe.dat > WalkStart(probe.cycle)

RECURSIVE SumOfDeltas(_, _)
SumOfDeltas(periods, n) ==
    IF n = 0 THEN 0 ELSE SumOfDeltas(periods, n - 1) + periods[n].delta_t

\* C18: when the maturity is a rolled anchor date of the cycle later than the
\* effective date, the premium-leg walk ends and its coupon periods tile
\* [effective date, maturity]: every period is non-empty, each starts where
\* the previous one ended, the first starts on the effective date, the last
\* ends on the maturity, and the day counts add up to maturity - effective
C18_WalkTiles ==
    AnchorMaturity =>
        /\ Len(probe.periods) >= 1
        /\ probe.periods[1].start = WalkStart(probe.cycle)
        /\ \A n \in DOMAIN probe.periods : probe.periods[n].delta_t > 0
        /\ \A n \in 1..(Len(probe.periods) - 1) :
              probe.periods[n + 1].start = probe.periods[n].end
        /\ probe.periods[Len(probe.periods)].end = probe.dat
        /\ SumOfDeltas(probe.periods, Len(probe.periods))
              = probe.dat - WalkStart(probe.cycle)

C18_Witness ==
    /\ AnchorMaturity
    /\ probe.cycle = "nonstandard"
    /\ DayOf(probe.dat) > 15
    /\ Len(probe.periods) >= 3
    /\ probe.periods[Len(probe.periods)].end = probe.dat

\* C20: for a maturity after the effective date K = ceil(12*T) >= 1, the grid
\* starts at 0 and ends at T (on the same day as T), its points increase
\* strictly and no subinterval is longer than 30 days; for T = 0, K = 0, the
\* loop runs over no subinterval and the protection leg is 0
C20_Grid ==
    pc = "gridded" =>
        IF probe.T_days = 0
        THEN probe.K = 0 /\ probe.grid = <<>> /\ probe.leg = 0
        ELSE /\ probe.K >= 1
             /\ 30 * (probe.K - 1) < probe.T_days /\ probe.T_days <= 30 * probe.K
             /\ Len(probe.grid) = probe.K
             /\ probe.grid[1].from = 0
             /\ probe.grid[probe.K].to = TimeToDays(YearFrac(probe.T_days))
             /\ \A n \in 1..probe.K : probe.grid[n].from < probe.grid[n].to

\* the coefficient of h_i in the integral of Q_h, in days: the integral is
\* linear in h_i
CandidateCoefficient(t, h_i, prev_h) ==
    HazardIntegral(t, h_i + 1, prev_h) - HazardIntegral(t, h_i, prev_h)

DerivativeAt(m) ==
    m.raises = "" =>
        /\ DiffDays(m.t) = CandidateCoefficient(m.t, probe.h_i, h_values)
        /\ m.dq = -((CandidateCoefficient(m.t, probe.h_i, h_values) * m.q) \div 360)
        /\ EndDate(m.t) > spread_maturity_dates[NPillars] =>
              /\ DiffDays(m.t) = 0
              /\ CandidateCoefficient(m.t, probe.h_i, h_values) = 0
              /\ m.dq = 0

\* C19: the year fraction that diff_Q_h multiplies by -Q_h is the coefficient
\* with which h_i enters the integral of Q_h, and both are 0 when the end
\* date is after every pillar
C19_Derivative ==
    pc = "probed" => DerivativeAt(probe.first) /\ DerivativeAt(probe.second)

C19_Witness ==
    /\ pc = "probed"
    /\ probe.second.raises = ""
    /\ NPillars >= 2
    /\ EndDate(probe.second.t) > spread_maturity_dates[1]
    /\ EndDate(probe.second.t) < spread_maturity_dates[2]
    /\ DiffDays(probe.second.t) > 0
    /\ probe.second.dq < 0

\* a map without the item of one key
DictWithout(dict, key) == SelectSeq(dict, LAMBDA item : item.key # key)

\* the reads of one evaluated time while the pillar maturity_date is calibrated
ReadsSolvedOnly(t, maturity_date) ==
    /\ EndDate(t) <= maturity_date
    /\ \A key \in MapReads(t) :
          key < EndDate(t) /\ key < maturity_date /\ HasKey(h_values, key)

AllReadsSolved(times, maturity_date) ==
    \A n \in DOMAIN times : ReadsSolvedOnly(times[n], maturity_date)

\* Q(dat) against Q_h on the map without the pillar Q located
SameWithoutLocated(t, rate, located) ==
    /\ located \notin MapReads(t)
    /\ Q_h_raises(t, rate, DictWithout(h_values, located)) = q_out.raises
    /\ q_out.raises = "" => q_out.value = Q_h(t, rate, DictWithout(h_values, located))

InRangeQuery ==
    /\ Queried
    /\ q_out.at >= effective_date
    /\ q_out.at <= LastPillar
    /\ q_out.raises # "KeyError"

\* C21: Q_h reads the map only at pillars strictly before the end date; while
\* a pillar is calibrated every evaluated time ends at or before that pillar,
\* so every read is of an earlier pillar, whose key the map holds, and no
\* KeyError is raised; and Q's answer for a date up to the last pillar is what
\* Q_h gives on the map without the located pillar's own item
C21_ReadsBeforeEndDate ==
    /\ (caller = "calibration" /\ pc \in {"newton", "raised"}) =>
          /\ err # "KeyError"
          /\ AllReadsSolved(MtmTimes(CurrentMaturity, standard_cds_payment_dates),
                            CurrentMaturity)
    /\ InRangeQuery =>
          SameWithoutLocated(YearFrac(q_out.at - effective_date),
                             QueryRate(q_out.at),
                             spread_maturity_dates[QueryIndex(q_out.at)])

C21_Witness ==
    /\ InRangeQuery
    /\ q_out.raises = ""
    /\ Len(h_values) >= 2
    /\ MapReads(YearFrac(q_out.at - effective_date)) # {}
    /\ HasKey(h_values, spread_maturity_dates[QueryIndex(q_out.at)])
    /\ returns[2].value # 0

====
